---- MODULE Spec2Model ----
(***************************************************************************)
(* local-repo-manager: the reconciler (Project.run, driven by run() of     *)
(* main.py) and the command-line entry point main().                       *)
(*                                                                         *)
(* The file system below the repository directory and the external tools   *)
(* (git, direnv, uv) are modelled by their observable effect: `disk` maps  *)
(* every project path base/group/name to what the code can observe there,  *)
(* and every tool invocation may succeed or exit non-zero.                 *)
(***************************************************************************)
EXTENDS Integers, Sequences, FiniteSets, TLC

VARIABLES
    command,     \* args.command / the `action` argument of run()
    skip_fetch,  \* the skip_fetch argument of run()
    cfg,         \* the declaration file: "absent", "malformed", "notable"
                 \* (valid, without a project table) or "ok"
    fileProjects,\* the project table of the declaration file, in file order
    backup,      \* <<the file write_config_file backed up>>, <<>> if none
    projects,    \* config["project"] in memory, in order
    walk,        \* the project directories update_config has yet to visit
    baseDir,     \* repo_dir is a directory
    groupDirs,   \* the groups g for which repo_dir/g is a directory
    disk,        \* path -> observed state of repo_dir/group/name
    pc,          \* position of the program
    cur,         \* index in `projects` of the project being reconciled
    plan,        \* self.plan of the current Project
    todo,        \* declared remotes the loop of Project.run has not visited
    pre,         \* disk[path] as it was when the current Project.run started
    calls,       \* every file-system operation and tool invocation, in order
    out,         \* what run() reported for each finished project
    exitCode,    \* <<exit status>> of the process, <<>> while it runs
    err          \* the message or exception the process ended with, None if none

vars == <<command, skip_fetch, cfg, fileProjects, backup, projects, walk,
          baseDir, groupDirs, disk, pc, cur, plan, todo, pre, calls, out,
          exitCode, err>>

None == "None"

----------------------------------------------------------------------------
(* Input domains *)

RemoteNames == {"origin", "upstream"}
\* two URLs that differ only by a trailing slash
URLs == {"git@h:o/r.git", "git@h:o/r.git/"}
Groups == {"g1", "g2"}
\* what data["group"] can also be: Project.__init__ takes any string
OtherGroups == {"..", ""}
Names == {"p1", "p2"}
\* directory names that hold a dot, as update_config can meet them
DottedPaths == {<<"a.b", "c">>, <<"a", "b.c">>}
\* a project directory is named by the group and name it is reached with
Paths == ((Groups \cup OtherGroups) \X Names) \cup DottedPaths

NoRemotes == [r \in RemoteNames |-> None]
RemoteMaps == [RemoteNames -> URLs \cup {None}]

\* what a .envrc holds: None if there is no such file, the line that
\* setup_envrc writes and has_envrc looks for, or something else
Activate == "source .venv/bin/activate"
EnvrcContents == {None, Activate, "other"}

Absent ==
    [exists |-> FALSE, git |-> FALSE, remotes |-> NoRemotes,
     envrc |-> None, allowed |-> FALSE, venv |-> FALSE]

\* what can be observed at a path: no remotes without .git, nothing without
\* the directory, and direnv reports "allowed" only for an existing .envrc
DirStates ==
    {d \in [exists : BOOLEAN, git : BOOLEAN, remotes : RemoteMaps,
            envrc : EnvrcContents, allowed : BOOLEAN, venv : BOOLEAN] :
        /\ ~d.exists => d = Absent
        /\ ~d.git => d.remotes = NoRemotes
        /\ d.allowed => d.envrc # None}

\* the declarations of one project: data["name"], data["group"],
\* data.get("envrc", False), data.get("remotes", {})
Decls(k, g, n) ==
    {[key |-> k, group |-> g, name |-> n, envrc |-> e, remotes |-> rm] :
        e \in BOOLEAN, rm \in RemoteMaps}

----------------------------------------------------------------------------
(* Exit statuses of the os module *)

EX_DATAERR == 65
EX_NOINPUT == 66
EX_OSERR == 71
EX_IOERR == 74
\* status of an interpreter that ends on an uncaught exception
EXIT_TRACEBACK == 1

----------------------------------------------------------------------------
(* Project *)

\* repo_dir, an absolute path, as the sequence of its components
repo_dir == <<"home", "dev">>

\* pathlib: joining drops an empty component, Path.resolve() drops "." and
\* lets ".." remove the component before it (the root is its own parent)
RECURSIVE resolve_from(_, _)
resolve_from(done, rest) ==
    IF rest = <<>> THEN done
    ELSE IF Head(rest) \in {"", "."} THEN resolve_from(done, Tail(rest))
    ELSE IF Head(rest) = ".."
    THEN resolve_from(IF done = <<>> THEN done ELSE SubSeq(done, 1, Len(done) - 1),
                      Tail(rest))
    ELSE resolve_from(Append(done, Head(rest)), Tail(rest))
resolve(path) == resolve_from(<<>>, path)

\* self.dir = (repo_dir / self.group / self.name).resolve()
ProjectDir(p) == resolve(repo_dir \o <<p.group, p.name>>)

\* path a is path b or one of its parents
IsPrefix(a, b) == Len(a) <= Len(b) /\ SubSeq(b, 1, Len(a)) = a

\* directory.parent of util.create_parent_dir
Parent(path) == SubSeq(path, 1, Len(path) - 1)

Prj == projects[cur]

\* self.dir built from the group and a fixed leaf instead of self.name
PathOf_fixed_leaf(p) == <<p.group, "p1">>

PathOf(p) == <<p.group, p.name>>
Dir == disk[PathOf(Prj)]
\* self.apply taken from the truth value of the action string
apply_truthy == command # ""

\* self.apply = action == "apply"
apply == command = "apply"
\* the loop over the remotes visits every remote name, declared or not
Declared_every_name(p) == RemoteNames

Declared(p) == {r \in RemoteNames : p.remotes[r] # None}

dir_exists(d) == d.exists
\* the directory itself is tested instead of its .git
is_inited_any_dir(d) == d.exists

is_inited(d) == d.git

\* one line of self.plan
Entry(msg, subject, url) == [msg |-> msg, subject |-> subject, url |-> url]

\* one element of `calls`: the tool, its arguments, whether it succeeded
CallOf(key, tool, arg, ok) == [tool |-> tool, key |-> key, arg |-> arg, ok |-> ok]
Call(tool, arg, ok) == CallOf(Prj.key, tool, arg, ok)

----------------------------------------------------------------------------
(* util.run_command: "ok" returns stdout, "raise" re-raises                 *)
(* CalledProcessError, "exit" is exit(os.EX_OSERR)                          *)

\* run_command that logs a failure and returns instead of exiting
run_command_no_exit(ok, raise_err) ==
    IF ok THEN "ok" ELSE IF raise_err THEN "raise" ELSE "ok"

run_command(ok, raise_err) ==
    IF ok THEN "ok" ELSE IF raise_err THEN "raise" ELSE "exit"

\* `git remote get-url r` exits non-zero iff r is not configured; the
\* CalledProcessError is caught and None returned
get_remote_url(d, r) ==
    IF run_command(d.remotes[r] # None, TRUE) = "ok" THEN d.remotes[r] ELSE None

\* the process ends: exit(status) or an uncaught exception
Exit(status, exc) ==
    /\ pc' = "exit"
    /\ exitCode' = <<status>>
    /\ err' = exc

\* a failed tool ends the process with the I/O-error status
ToolExit_ioerr == Exit(EX_IOERR, "CalledProcessError")

\* exit(os.EX_OSERR) of run_command
ToolExit == Exit(EX_OSERR, "CalledProcessError")

----------------------------------------------------------------------------
(* run() of main.py, lines 19-21: the next project is constructed           *)
(* (Project.__init__) and its run() entered; after the last one run()       *)
(* returns and the process ends with status 0                               *)

RunLoop ==
    /\ pc = "loop"
    /\ IF cur < Len(projects)
       THEN /\ cur' = cur + 1
            /\ plan' = <<>>
            /\ pre' = disk[PathOf(projects[cur + 1])]
            /\ pc' = "exists"
            /\ UNCHANGED <<exitCode, err>>
       ELSE /\ pc' = "done"
            /\ exitCode' = <<0>>
            /\ UNCHANGED <<cur, plan, pre, err>>
    /\ UNCHANGED <<command, skip_fetch, cfg, fileProjects, backup, projects, walk,
                   baseDir, groupDirs,
                   disk, todo, calls, out>>

----------------------------------------------------------------------------
(* Project.run, lines 31-39: the existence gate *)

\* the clone entry is recorded and Project.run goes on to the next gate
AfterPlannedClone_fallthrough == "inited"

\* where Project.run goes after it recorded the clone entry (line 39)
AfterPlannedClone == "return"

\* what `git clone url dir` leaves behind: a repository whose origin is url;
\* the checkout may or may not hold a .envrc
Cloned(url, rc) ==
    [exists |-> TRUE, git |-> TRUE,
     remotes |-> [r \in RemoteNames |-> IF r = "origin" THEN url ELSE None],
     envrc |-> rc, allowed |-> FALSE, venv |-> FALSE]

\* clone_repo: url = self.remotes.get("origin") is handed to run_command,
\* whose " ".join(command) raises TypeError on None before git is started
clone_repo(url, ok) ==
    IF url = None THEN "TypeError" ELSE run_command(ok, FALSE)

ExistenceGate ==
    /\ pc = "exists"
    /\ IF dir_exists(Dir)
       THEN /\ pc' = "inited"
            /\ UNCHANGED <<baseDir, groupDirs, disk, plan, calls, exitCode, err>>
       ELSE IF apply
       THEN \E ok \in BOOLEAN, rc \in EnvrcContents :
              LET url == Prj.remotes["origin"]
                  res == clone_repo(url, ok)
                  mk == <<Call("mkdir", <<>>, TRUE)>>
              IN  \* util.create_parent_dir
                  \* parent_dir.mkdir(parents=True): repo_dir and the group
                  \* directory are made if they lie on the way to self.dir
                  /\ baseDir' = (baseDir \/ IsPrefix(repo_dir, Parent(ProjectDir(Prj))))
                  /\ groupDirs' = groupDirs \cup
                        {g \in Groups : IsPrefix(repo_dir \o <<g>>, Parent(ProjectDir(Prj)))}
                  /\ plan' = plan
                  /\ CASE res = "ok" ->
                            /\ disk' = [disk EXCEPT ![PathOf(Prj)] = Cloned(url, rc)]
                            /\ calls' = calls \o mk \o <<Call("git clone", <<url>>, ok)>>
                            /\ pc' = "inited"
                            /\ UNCHANGED <<exitCode, err>>
                       [] res = "exit" ->
                            /\ rc = None
                            /\ calls' = calls \o mk \o <<Call("git clone", <<url>>, ok)>>
                            /\ ToolExit
                            /\ disk' = disk
                       [] res = "TypeError" ->
                            /\ ok /\ rc = None
                            /\ calls' = calls \o mk
                            /\ Exit(EXIT_TRACEBACK, "TypeError")
                            /\ disk' = disk
       ELSE /\ plan' = Append(plan, Entry("will clone in a new directory", Prj.name, None))
            /\ pc' = AfterPlannedClone
            /\ UNCHANGED <<baseDir, groupDirs, disk, calls, exitCode, err>>
    /\ UNCHANGED <<command, skip_fetch, cfg, fileProjects, backup, projects, walk,
                   cur, todo, pre, out>>

----------------------------------------------------------------------------
(* Project.run, lines 42-54: the initialization gate and the test of        *)
(* self.envrc                                                               *)

\* Project.run returns after the initialization gate when envrc is not set
AfterInit_skip_remotes(p) == IF p.envrc THEN "envrc" ELSE "return"

\* the environment steps run whatever self.envrc is
AfterInit_always_envrc(p) == "envrc"

\* lines 52-56: setup_envrc and setup_venv run only if self.envrc
AfterInit(p) == IF p.envrc THEN "envrc" ELSE "remotes"

\* the init entry is recorded and Project.run goes on to the next step
AfterPlannedInit_fallthrough == AfterInit(Prj)

\* where Project.run goes after it recorded the init entry (line 49)
AfterPlannedInit == "return"

InitGate ==
    /\ pc = "inited"
    /\ IF is_inited(Dir)
       THEN /\ pc' = AfterInit(Prj)
            /\ todo' = Declared(Prj)
            /\ UNCHANGED <<disk, plan, calls, exitCode, err>>
       ELSE IF apply
       THEN \E ok \in BOOLEAN :
              IF run_command(ok, FALSE) = "ok"
              THEN /\ disk' = [disk EXCEPT ![PathOf(Prj)].git = TRUE]
                   /\ calls' = Append(calls, Call("git init", <<>>, ok))
                   /\ pc' = AfterInit(Prj)
                   /\ todo' = Declared(Prj)
                   /\ UNCHANGED <<plan, exitCode, err>>
              ELSE /\ calls' = Append(calls, Call("git init", <<>>, ok))
                   /\ ToolExit
                   /\ UNCHANGED <<disk, plan, todo>>
       ELSE /\ plan' = Append(plan, Entry("will clone in an existing dir", Prj.name, None))
            /\ pc' = AfterPlannedInit
            /\ todo' = Declared(Prj)
            /\ UNCHANGED <<disk, calls, exitCode, err>>
    /\ UNCHANGED <<command, skip_fetch, cfg, fileProjects, backup, projects, walk,
                   baseDir, groupDirs,
                   cur, pre, out>>

----------------------------------------------------------------------------
(* Project.setup_envrc, lines 63-86, with envrc.is_envrc_setup *)

\* setup_envrc goes on to the direnv test after it recorded the entry
ReturnAfterPlannedEnvrc_missing == FALSE

\* line 74: in plan mode a missing .envrc ends setup_envrc
ReturnAfterPlannedEnvrc == TRUE

\* the .envrc is taken as set up as soon as the file exists
is_envrc_setup_file_exists(d) == d.envrc # None

\* envrc.is_envrc_setup: "Found RC allowed true" is in the output of
\* `direnv status`
is_envrc_setup(d) == d.allowed

\* the result of setup_envrc on directory state d with plan pl:
\* [d, plan, calls, res], res = "exit" if a tool failure ended the process
setup_envrc(d, pl, statusOk, allowOk) ==
    LET missing == d.envrc = None
        \* lines 65-74
        d1 == IF missing /\ apply
              THEN [d EXCEPT !.envrc = Activate, !.allowed = FALSE] ELSE d
        c1 == IF missing /\ apply
              THEN <<Call("write .envrc", <<>>, TRUE)>> ELSE <<>>
        p1 == IF missing /\ ~apply
              THEN Append(pl, Entry("will create .envrc", Prj.name, None)) ELSE pl
        status == Call("direnv status", <<>>, statusOk)
        allow == Call("direnv allow", <<>>, allowOk)
    IN  IF missing /\ ~apply /\ ReturnAfterPlannedEnvrc
        THEN [d |-> d1, plan |-> p1, calls |-> c1, res |-> "ok"]
        \* lines 76-86
        ELSE IF run_command(statusOk, FALSE) # "ok"
        THEN [d |-> d1, plan |-> p1, calls |-> c1 \o <<status>>, res |-> "exit"]
        ELSE IF is_envrc_setup(d1)
        THEN [d |-> d1, plan |-> p1, calls |-> c1 \o <<status>>, res |-> "ok"]
        ELSE IF ~apply
        THEN [d |-> d1,
              plan |-> Append(p1, Entry("will allow .envrc", Prj.name, None)),
              calls |-> c1 \o <<status>>, res |-> "ok"]
        ELSE IF run_command(allowOk, FALSE) = "ok"
        THEN [d |-> [d1 EXCEPT !.allowed = TRUE], plan |-> p1,
              calls |-> c1 \o <<status, allow>>, res |-> "ok"]
        ELSE [d |-> d1, plan |-> p1,
              calls |-> c1 \o <<status, allow>>, res |-> "exit"]

SetupEnvrc ==
    /\ pc = "envrc"
    /\ \E statusOk \in BOOLEAN, allowOk \in BOOLEAN :
         LET r == setup_envrc(Dir, plan, statusOk, allowOk)
         IN  /\ disk' = [disk EXCEPT ![PathOf(Prj)] = r.d]
             /\ plan' = r.plan
             /\ calls' = calls \o r.calls
             /\ IF r.res = "ok"
                THEN pc' = "venv" /\ UNCHANGED <<exitCode, err>>
                ELSE ToolExit
    /\ UNCHANGED <<command, skip_fetch, cfg, fileProjects, backup, projects, walk,
                   baseDir, groupDirs,
                   cur, todo, pre, out>>

----------------------------------------------------------------------------
(* Project.setup_venv, lines 88-100 *)

\* setup_venv without its apply branch: a missing .venv is only ever planned
setup_venv_plan_only(d, pl, ok) ==
    IF d.venv \/ apply
    THEN [d |-> d, plan |-> pl, calls |-> <<>>, res |-> "ok"]
    ELSE [d |-> d, plan |-> Append(pl, Entry("will create venv", Prj.name, None)),
          calls |-> <<>>, res |-> "ok"]

setup_venv(d, pl, ok) ==
    IF d.venv
    THEN [d |-> d, plan |-> pl, calls |-> <<>>, res |-> "ok"]
    ELSE IF ~apply
    THEN [d |-> d, plan |-> Append(pl, Entry("will create venv", Prj.name, None)),
          calls |-> <<>>, res |-> "ok"]
    ELSE IF run_command(ok, FALSE) = "ok"
    THEN [d |-> [d EXCEPT !.venv = TRUE], plan |-> pl,
          calls |-> <<Call("uv venv", <<>>, ok)>>, res |-> "ok"]
    ELSE [d |-> d, plan |-> pl,
          calls |-> <<Call("uv venv", <<>>, ok)>>, res |-> "exit"]

SetupVenv ==
    /\ pc = "venv"
    /\ \E ok \in BOOLEAN :
         LET r == setup_venv(Dir, plan, ok)
         IN  /\ disk' = [disk EXCEPT ![PathOf(Prj)] = r.d]
             /\ plan' = r.plan
             /\ calls' = calls \o r.calls
             /\ IF r.res = "ok"
                THEN pc' = "remotes" /\ UNCHANGED <<exitCode, err>>
                ELSE ToolExit
    /\ UNCHANGED <<command, skip_fetch, cfg, fileProjects, backup, projects, walk,
                   baseDir, groupDirs,
                   cur, todo, pre, out>>

----------------------------------------------------------------------------
(* Project.set_up_remote, lines 123-145, with add_remote and update_remote; *)
(* one iteration of the loop of Project.run, lines 56-57                    *)

\* the comparison without its branch for equal URLs
RemoteAction_no_equal(actual_url, url) ==
    IF actual_url = None THEN "add" ELSE "update"

\* the comparison with URLs compared up to a trailing slash
StripSlash(u) == IF u = "git@h:o/r.git/" THEN "git@h:o/r.git" ELSE u
RemoteAction_normalized(actual_url, url) ==
    IF actual_url = None THEN "add"
    ELSE IF StripSlash(actual_url) = StripSlash(url) THEN "none"
    ELSE "update"

\* a remote whose URL could not be read is left alone
RemoteAction_skip_unreadable(actual_url, url) ==
    IF actual_url = None \/ actual_url = url THEN "none" ELSE "update"

\* the comparison of lines 126-135
RemoteAction(actual_url, url) ==
    IF actual_url = None THEN "add"
    ELSE IF actual_url = url THEN "none"
    ELSE "update"

set_up_remote(d, pl, name, url, ok) ==
    LET actual_url == get_remote_url(d, name)
        act == RemoteAction(actual_url, url)
        get == Call("git remote get-url", <<name>>, actual_url # None)
        tool == IF act = "add" THEN "git remote add" ELSE "git remote set-url"
    IN  IF act = "none"
        THEN [d |-> d, plan |-> pl, calls |-> <<get>>, res |-> "ok"]
        ELSE IF ~apply
        THEN [d |-> d,
              plan |-> IF act = "add"
                       THEN Append(pl, Entry("will add remote", name, url))
                       ELSE pl \o <<Entry("will update url for existing remote", name, None),
                                    Entry("from", name, actual_url),
                                    Entry("to", name, url)>>,
              calls |-> <<get>>, res |-> "ok"]
        ELSE IF run_command(ok, FALSE) = "ok"
        THEN [d |-> [d EXCEPT !.remotes[name] = url], plan |-> pl,
              calls |-> <<get, Call(tool, <<name, url>>, ok)>>, res |-> "ok"]
        ELSE [d |-> d, plan |-> pl,
              calls |-> <<get, Call(tool, <<name, url>>, ok)>>, res |-> "exit"]

SetUpRemote ==
    /\ pc = "remotes"
    /\ \E name \in todo, ok \in BOOLEAN :
         LET r == set_up_remote(Dir, plan, name, Prj.remotes[name], ok)
         IN  /\ disk' = [disk EXCEPT ![PathOf(Prj)] = r.d]
             /\ plan' = r.plan
             /\ calls' = calls \o r.calls
             /\ todo' = todo \ {name}
             /\ IF r.res = "ok"
                THEN UNCHANGED <<pc, exitCode, err>>
                ELSE ToolExit
    /\ UNCHANGED <<command, skip_fetch, cfg, fileProjects, backup, projects, walk,
                   baseDir, groupDirs,
                   cur, pre, out>>

----------------------------------------------------------------------------
(* Project.run, lines 58-61, with Project.setup_origin, lines 102-121 *)

\* the sync step without the test of skip_fetch
Syncs_ignore_skip_fetch(p) == apply /\ "origin" \in Declared(p)

\* the sync step runs (lines 58 and 103)
Syncs(p) == apply /\ ~skip_fetch /\ "origin" \in Declared(p)

\* setup_origin with the submodule update made before the fetch
setup_origin_submodule_first(fetchOk, subOk) ==
    IF run_command(subOk, FALSE) # "ok"
    THEN [calls |-> <<Call("git submodule update", <<>>, subOk)>>, res |-> "exit"]
    ELSE [calls |-> <<Call("git submodule update", <<>>, subOk),
                      Call("git fetch", <<"origin">>, fetchOk)>>,
          res |-> IF run_command(fetchOk, FALSE) # "ok" THEN "exit" ELSE "ok"]

\* fetch and submodule update change refs and work tree, which `disk` does
\* not hold: their effect is their entry in `calls`
setup_origin(fetchOk, subOk) ==
    IF run_command(fetchOk, FALSE) # "ok"
    THEN [calls |-> <<Call("git fetch", <<"origin">>, fetchOk)>>, res |-> "exit"]
    ELSE IF run_command(subOk, FALSE) # "ok"
    THEN [calls |-> <<Call("git fetch", <<"origin">>, fetchOk),
                      Call("git submodule update", <<>>, subOk)>>, res |-> "exit"]
    ELSE [calls |-> <<Call("git fetch", <<"origin">>, fetchOk),
                      Call("git submodule update", <<>>, subOk)>>, res |-> "ok"]

SetupOrigin ==
    /\ pc = "remotes"
    /\ todo = {}
    /\ IF Syncs(Prj)
       THEN \E fetchOk \in BOOLEAN, subOk \in BOOLEAN :
              LET r == setup_origin(fetchOk, subOk)
              IN  /\ calls' = calls \o r.calls
                  /\ IF r.res = "ok"
                     THEN pc' = "return" /\ UNCHANGED <<exitCode, err>>
                     ELSE ToolExit
       ELSE /\ pc' = "return"
            /\ UNCHANGED <<calls, exitCode, err>>
    /\ UNCHANGED <<command, skip_fetch, cfg, fileProjects, backup, projects, walk,
                   baseDir, groupDirs,
                   disk, cur, plan, todo, pre, out>>

----------------------------------------------------------------------------
(* run() of main.py, lines 22-28: the plan Project.run returned is reported *)

Report(p, pl) ==
    [key |-> p.key,
     msg |-> IF command = "plan" /\ pl # <<>> THEN "Plan for" ELSE "no changes to",
     plan |-> pl]

Return ==
    /\ pc = "return"
    /\ out' = Append(out, Report(Prj, plan))
    /\ pc' = "loop"
    /\ UNCHANGED <<command, skip_fetch, cfg, fileProjects, backup, projects, walk,
                   baseDir, groupDirs,
                   disk, cur, plan, todo, pre, calls, exitCode, err>>

----------------------------------------------------------------------------
(* The reconciler: run(projects, repo_dir, action, skip_fetch) on one       *)
(* declared project, for every declaration and every observed state         *)

TypeOK ==
    /\ command \in {"plan", "apply", "update"}
    /\ skip_fetch \in BOOLEAN
    /\ cfg \in {"absent", "malformed", "notable", "ok"}
    /\ baseDir \in BOOLEAN
    /\ groupDirs \subseteq {p[1] : p \in Paths}
    /\ \A p \in Paths : disk[p] \in DirStates
    /\ cur \in 0..Len(projects)
    /\ todo \subseteq RemoteNames
    /\ exitCode \in {<<>>, <<0>>, <<EXIT_TRACEBACK>>, <<EX_DATAERR>>, <<EX_NOINPUT>>,
                    <<EX_OSERR>>}
    /\ exitCode # <<>> <=> pc \in {"done", "exit"}

\* the tree below repo_dir is a tree: a project directory has its group
\* directory, a group directory has repo_dir
DiskOK(b, gs, dk) ==
    /\ gs # {} => b
    /\ \A p \in Paths : dk[p].exists =>
          /\ p[1] \notin OtherGroups => p[1] \in gs
          /\ p[1] = "" => b

InitCall(ps) ==
    /\ projects = ps
    /\ fileProjects = ps
    /\ cfg = "ok"
    /\ backup = <<>>
    /\ walk = <<>>
    /\ pc = "loop"
    /\ cur = 0
    /\ plan = <<>>
    /\ todo = {}
    /\ pre = Absent
    /\ calls = <<>>
    /\ out = <<>>
    /\ exitCode = <<>>
    /\ err = None

Init ==
    /\ command \in {"plan", "apply"}
    /\ skip_fetch \in BOOLEAN
    /\ baseDir \in BOOLEAN
    /\ groupDirs \in SUBSET {"g1"}
    /\ \E d \in DirStates :
         disk = [p \in Paths |-> IF p = <<"g1", "p1">> THEN d ELSE Absent]
    /\ DiskOK(baseDir, groupDirs, disk)
    /\ \E p \in Decls("k1", "g1", "p1") : InitCall(<<p>>)

\* run() on one project whose group is any string of the declaration and
\* whose key may be the empty string
CtorDirStates ==
    {d \in DirStates :
        /\ d.remotes["upstream"] = None
        /\ d.remotes["origin"] # "git@h:o/r.git/"
        /\ d.envrc # "other"}

CtorInit ==
    /\ command \in {"plan", "apply"}
    /\ skip_fetch \in BOOLEAN
    /\ baseDir \in BOOLEAN
    /\ groupDirs \in SUBSET {"g1"}
    /\ \E g \in {"g1"} \cup OtherGroups, k \in {"k1", ""} :
         /\ \E d \in CtorDirStates :
              disk = [p \in Paths |-> IF p = <<g, "p1">> THEN d ELSE Absent]
         /\ \E p \in Decls(k, g, "p1") :
              /\ p.remotes["upstream"] = None
              /\ p.remotes["origin"] # "git@h:o/r.git/"
              /\ InitCall(<<p>>)
    /\ DiskOK(baseDir, groupDirs, disk)

Next ==
    \/ RunLoop
    \/ ExistenceGate
    \/ InitGate
    \/ SetupEnvrc
    \/ SetupVenv
    \/ SetUpRemote
    \/ SetupOrigin
    \/ Return

Spec == Init /\ [][Next]_vars

CtorSpec == CtorInit /\ [][Next]_vars

\* run() with action "apply" and, once it has returned, run() with action
\* "plan" on the same projects and the tree the first run left
PlanAfterApply ==
    /\ pc = "done"
    /\ command = "apply"
    /\ command' = "plan"
    /\ pc' = "loop"
    /\ cur' = 0
    /\ plan' = <<>>
    /\ exitCode' = <<>>
    /\ UNCHANGED <<skip_fetch, cfg, fileProjects, backup, projects, walk, baseDir,
                   groupDirs, disk, todo, pre, calls, out, err>>

ReplanInit == Init /\ command = "apply"

ReplanNext == Next \/ PlanAfterApply

ReplanSpec == ReplanInit /\ [][ReplanNext]_vars

----------------------------------------------------------------------------
(* main() of main.py, lines 32-56, with config.load_config and             *)
(* config.get_projects                                                      *)

\* what load_config returns as config["project"]
Loaded == IF cfg = "ok" THEN fileProjects ELSE <<>>

Main ==
    /\ pc = "main"
    /\ IF cfg = "malformed"
       THEN \* load_config, lines 14-16
            /\ Exit(EX_DATAERR, "Error reading config file")
            /\ UNCHANGED projects
       ELSE IF command = "update"
       THEN /\ pc' = "update"
            /\ projects' = Loaded
            /\ UNCHANGED <<exitCode, err>>
       ELSE IF cfg = "absent"
       THEN \* main, lines 43-45
            /\ Exit(EX_DATAERR, "no config found")
            /\ UNCHANGED projects
       ELSE IF Loaded = <<>>
       THEN \* get_projects, lines 21-23
            /\ Exit(EX_DATAERR, "No projects found in config.")
            /\ UNCHANGED projects
       ELSE IF command = "plan"
       THEN \* line 51: the plan parser defines no skip_fetch
            /\ Exit(EXIT_TRACEBACK, "AttributeError")
            /\ UNCHANGED projects
       ELSE /\ pc' = "loop"
            /\ projects' = Loaded
            /\ UNCHANGED <<exitCode, err>>
    /\ UNCHANGED <<command, skip_fetch, cfg, fileProjects, backup, walk, baseDir,
                   groupDirs, disk, cur, plan, todo, pre, calls, out>>

----------------------------------------------------------------------------
(* update.update_config, lines 50-75, with get_project_info, get_remotes    *)
(* and envrc.has_envrc                                                      *)

\* the sequences that hold every element of S once
Orders(S) ==
    {w \in [1..Cardinality(S) -> S] : \A i, j \in DOMAIN w : w[i] = w[j] => i = j}

\* the orders in which the nested iterdir() loops can meet the project
\* directories: the directories of one group come one after the other
WalkOrders ==
    {w \in Orders({p \in Paths : disk[p].exists}) :
        \A i, j, k \in DOMAIN w :
            (i < j /\ j < k /\ w[i][1] = w[k][1]) => w[j][1] = w[i][1]}

\* update_config without the test of repo_dir.is_dir()
UpdateConfig_no_is_dir_test ==
    /\ pc = "update"
    /\ walk' \in WalkOrders
    /\ pc' = "walk"
    /\ UNCHANGED <<command, skip_fetch, cfg, fileProjects, backup, projects,
                   baseDir, groupDirs, disk, cur, plan, todo, pre, calls, out,
                   exitCode, err>>

UpdateConfig ==
    /\ pc = "update"
    /\ IF ~baseDir
       THEN /\ Exit(EX_NOINPUT, "repo directory does not exist")
            /\ UNCHANGED walk
       ELSE /\ walk' \in WalkOrders
            /\ pc' = "walk"
            /\ UNCHANGED <<exitCode, err>>
    /\ UNCHANGED <<command, skip_fetch, cfg, fileProjects, backup, projects,
                   baseDir, groupDirs, disk, cur, plan, todo, pre, calls, out>>

\* f"{group_dir.name}.{project_dir.name}"
config_name(p) == p[1] \o "." \o p[2]

\* "source .venv/bin/activate" is in the .envrc
has_envrc(d) == d.envrc = Activate

\* the order in which `git remote` lists the remotes
RemoteOrder == <<"origin", "upstream">>

\* get_remotes on directory state d for key k: `git remote`, then
\* `git remote get-url` for every listed remote; `failAt` is the invocation
\* that fails, 0 if none does
Configured(d) == SelectSeq(RemoteOrder, LAMBDA r : d.remotes[r] # None)
get_remotes_calls(k, d, failAt) ==
    LET names == Configured(d)
        n == IF failAt = 0 THEN Len(names) + 1 ELSE failAt
    IN  [i \in 1..n |->
            IF i = 1 THEN CallOf(k, "git remote", <<>>, failAt # 1)
            ELSE CallOf(k, "git remote get-url", <<names[i - 1]>>, failAt # i)]

\* config["project"] = {name: project}: the table is replaced
Put_fresh_table(ps, e) == <<e>>

\* config["project"][name] = project
Put(ps, e) ==
    IF \E i \in 1..Len(ps) : ps[i].key = e.key
    THEN [i \in 1..Len(ps) |-> IF ps[i].key = e.key THEN e ELSE ps[i]]
    ELSE Append(ps, e)

\* the entry for directory p with envrc set whatever the directory holds
project_info_envrc_always(p, d) ==
    [key |-> config_name(p), group |-> p[1], name |-> p[2],
     envrc |-> TRUE, remotes |-> d.remotes]

\* the entry for directory p with every URL stored with a closing slash
WithSlash(u) == IF u = "git@h:o/r.git" THEN "git@h:o/r.git/" ELSE u
project_info_slash_urls(p, d) ==
    [key |-> config_name(p), group |-> p[1], name |-> p[2],
     envrc |-> has_envrc(d),
     remotes |-> [r \in RemoteNames |-> WithSlash(d.remotes[r])]]

\* get_project_info: the entry for directory p in state d
project_info(p, d) ==
    [key |-> config_name(p), group |-> p[1], name |-> p[2],
     envrc |-> has_envrc(d), remotes |-> d.remotes]

\* lines 61-73 for one project directory
Discover ==
    /\ pc = "walk"
    /\ walk # <<>>
    /\ LET p == Head(walk)
           d == disk[p]
       IN  IF ~is_inited(d)
           THEN /\ walk' = Tail(walk)
                /\ UNCHANGED <<projects, calls, pc, exitCode, err>>
           ELSE \E failAt \in 0..(Len(Configured(d)) + 1) :
                  /\ calls' = calls \o get_remotes_calls(config_name(p), d, failAt)
                  /\ IF run_command(failAt = 0, FALSE) # "ok"
                     THEN /\ ToolExit
                          /\ UNCHANGED <<projects, walk>>
                     ELSE IF Configured(d) = <<>>
                     THEN \* no remotes: get_project_info returns None
                          /\ walk' = Tail(walk)
                          /\ UNCHANGED <<projects, pc, exitCode, err>>
                     ELSE IF cfg = "notable"
                     THEN \* config["project"] does not exist
                          /\ Exit(EXIT_TRACEBACK, "KeyError")
                          /\ UNCHANGED <<projects, walk>>
                     ELSE /\ projects' = Put(projects, project_info(p, d))
                          /\ walk' = Tail(walk)
                          /\ UNCHANGED <<pc, exitCode, err>>
    /\ UNCHANGED <<command, skip_fetch, cfg, fileProjects, backup, baseDir,
                   groupDirs, disk, cur, plan, todo, pre, out>>

----------------------------------------------------------------------------
(* update.write_config_file, lines 78-103; main() then returns. The        *)
(* copy to the backup file and the write of the declaration file are two   *)
(* file-system operations, made one after the other                        *)

\* lines 78-97 without the copy of line 93
WriteConfigFile_no_backup ==
    /\ pc = "walk"
    /\ walk = <<>>
    /\ IF cfg # "absent" /\ projects = Loaded
       THEN /\ pc' = "done"
            /\ exitCode' = <<0>>
       ELSE /\ pc' = "write"
            /\ UNCHANGED exitCode
    /\ UNCHANGED <<command, skip_fetch, cfg, fileProjects, backup, projects,
                   walk, baseDir, groupDirs, disk, cur, plan, todo, pre, calls,
                   out, err>>

\* lines 78-97: the comparison with the existing file and the backup
WriteConfigFile ==
    /\ pc = "walk"
    /\ walk = <<>>
    /\ IF cfg # "absent" /\ projects = Loaded
       THEN \* lines 84-89: no changes
            /\ pc' = "done"
            /\ exitCode' = <<0>>
            /\ UNCHANGED backup
       ELSE /\ backup' = IF cfg # "absent"
                         THEN <<[cfg |-> cfg, projects |-> fileProjects]>>
                         ELSE backup
            /\ pc' = "write"
            /\ UNCHANGED exitCode
    /\ UNCHANGED <<command, skip_fetch, cfg, fileProjects, projects, walk,
                   baseDir, groupDirs, disk, cur, plan, todo, pre, calls, out,
                   err>>

\* lines 99-103: config_path.write_text(tomlkit.dumps(config))
WriteText ==
    /\ pc = "write"
    /\ cfg' = "ok"
    /\ fileProjects' = projects
    /\ pc' = "done"
    /\ exitCode' = <<0>>
    /\ UNCHANGED <<command, skip_fetch, backup, projects, walk, baseDir,
                   groupDirs, disk, cur, plan, todo, pre, calls, out, err>>

----------------------------------------------------------------------------
(* The program: main() on every command, declaration file and tree         *)

\* the declarations of the file: at most one project per key, the key of a
\* project being its group and name as update_config writes it
MainPaths == {<<"g1", "p1">>, <<"g1", "p2">>}
MainUrl == "git@h:o/r.git"
MainDecl(p) ==
    {[key |-> config_name(p), group |-> p[1], name |-> p[2], envrc |-> e,
      remotes |-> [r \in RemoteNames |-> IF r = "origin" THEN u ELSE None]] :
        e \in BOOLEAN, u \in {None, MainUrl}}
MainFiles ==
    UNION {{w \in [1..Cardinality(S) -> UNION {MainDecl(p) : p \in S}] :
              \A i, j \in DOMAIN w : w[i].key = w[j].key => i = j} :
           S \in SUBSET MainPaths}

\* the states of the project directories
MainDirStates ==
    {d \in DirStates :
        /\ d.remotes["upstream"] = None
        /\ d.envrc # "other"
        /\ d.venv = d.allowed
        /\ ~d.git => d.envrc = None}

MainInit ==
    /\ command \in {"plan", "apply", "update"}
    /\ skip_fetch \in BOOLEAN
    /\ command # "apply" => skip_fetch = FALSE
    /\ cfg \in {"absent", "malformed", "notable", "ok"}
    /\ fileProjects \in MainFiles
    /\ cfg # "ok" => fileProjects = <<>>
    /\ baseDir \in BOOLEAN
    /\ groupDirs \in SUBSET {"g1"}
    /\ \E d1 \in MainDirStates, d2 \in MainDirStates :
         disk = [p \in Paths |-> IF p = <<"g1", "p1">> THEN d1
                                 ELSE IF p = <<"g1", "p2">> THEN d2 ELSE Absent]
    /\ DiskOK(baseDir, groupDirs, disk)
    /\ backup = <<>>
    /\ projects = <<>>
    /\ walk = <<>>
    /\ pc = "main"
    /\ cur = 0
    /\ plan = <<>>
    /\ todo = {}
    /\ pre = Absent
    /\ calls = <<>>
    /\ out = <<>>
    /\ exitCode = <<>>
    /\ err = None

MainNext ==
    \/ Main
    \/ UpdateConfig
    \/ Discover
    \/ WriteConfigFile
    \/ WriteText
    \/ RunLoop
    \/ ExistenceGate
    \/ InitGate
    \/ SetupEnvrc
    \/ SetupVenv
    \/ SetUpRemote
    \/ SetupOrigin
    \/ Return

MainSpec == MainInit /\ [][MainNext]_vars

\* main() with the update command on a tree whose directory names hold dots
DottedInit ==
    /\ command = "update"
    /\ skip_fetch = FALSE
    /\ cfg \in {"absent", "malformed", "notable", "ok"}
    /\ fileProjects \in MainFiles
    /\ cfg # "ok" => fileProjects = <<>>
    /\ baseDir \in BOOLEAN
    /\ groupDirs \in SUBSET {p[1] : p \in DottedPaths}
    /\ \E d1 \in MainDirStates, d2 \in MainDirStates :
         disk = [p \in Paths |-> IF p = <<"a.b", "c">> THEN d1
                                 ELSE IF p = <<"a", "b.c">> THEN d2 ELSE Absent]
    /\ DiskOK(baseDir, groupDirs, disk)
    /\ backup = <<>>
    /\ projects = <<>>
    /\ walk = <<>>
    /\ pc = "main"
    /\ cur = 0
    /\ plan = <<>>
    /\ todo = {}
    /\ pre = Absent
    /\ calls = <<>>
    /\ out = <<>>
    /\ exitCode = <<>>
    /\ err = None

DottedNext ==
    \/ Main
    \/ UpdateConfig
    \/ Discover
    \/ WriteConfigFile
    \/ WriteText

DottedSpec == DottedInit /\ [][DottedNext]_vars

\* main() with the update command and, once it has returned, run() with
\* action "plan" on the declaration it left, against the same tree
PlanAfterUpdate ==
    /\ pc = "done"
    /\ command = "update"
    /\ command' = "plan"
    /\ projects' = Loaded
    /\ pc' = "loop"
    /\ cur' = 0
    /\ plan' = <<>>
    /\ exitCode' = <<>>
    /\ UNCHANGED <<skip_fetch, cfg, fileProjects, backup, walk, baseDir,
                   groupDirs, disk, todo, pre, calls, out, err>>

RoundTripInit == MainInit /\ command = "update"

RoundTripNext == MainNext \/ PlanAfterUpdate

RoundTripSpec == RoundTripInit /\ [][RoundTripNext]_vars

----------------------------------------------------------------------------
(* Vocabulary of the properties *)

\* the tools and file-system operations that change something
MutatingTools ==
    {"mkdir", "git clone", "git init", "write .envrc", "direnv allow", "uv venv",
     "git remote add", "git remote set-url", "git fetch", "git submodule update"}

SyncTools == {"git fetch", "git submodule update"}

RemoteMsgs ==
    {"will add remote", "will update url for existing remote", "from", "to"}

\* Project.run of the current project has started and not yet been reported
InCall == cur > 0 /\ pc \in {"exists", "inited", "envrc", "venv", "remotes", "return", "exit"}

\* Project.run of the current project has returned self.plan
Returned == cur > 0 /\ pc = "return"

\* the invocations made for the project with key k
CallsOf(k) == SelectSeq(calls, LAMBDA c : c.key = k)

\* the tools among the elements of a sequence of calls
ToolsIn(cs) == {cs[i].tool : i \in 1..Len(cs)}

\* project p needs nothing done on a directory in state d
Converged(p, d) ==
    /\ d.exists
    /\ d.git
    /\ \A r \in Declared(p) : d.remotes[r] = p.remotes[r]
    /\ p.envrc => d.envrc # None /\ d.allowed /\ d.venv

----------------------------------------------------------------------------
\* C1: in plan mode no step of the run changes the observed state (the
\* project directories, the group directories, the repository directory) and
\* no step invokes a mutating tool or file-system operation.
C1_PlanModeMutatesNothing ==
    [][command = "plan" =>
         /\ disk' = disk
         /\ groupDirs' = groupDirs
         /\ baseDir' = baseDir
         /\ \A i \in (Len(calls) + 1)..Len(calls') :
               calls'[i].tool \notin MutatingTools]_vars

\* a plan run returned a plan with environment and remote entries
C1_Witness ==
    /\ command = "plan"
    /\ Returned
    /\ Dir = pre
    /\ \E i \in 1..Len(plan) : plan[i].msg = "will create venv"
    /\ \E i \in 1..Len(plan) : plan[i].msg = "will add remote"
    /\ \E i \in 1..Len(plan) : plan[i].msg = "to"

\* C2: a plan run on a missing directory returns exactly the clone entry and
\* evaluates no later gate (no tool was invoked for the project).
C2_PlanMissingDirOnlyClone ==
    (command = "plan" /\ Returned /\ ~pre.exists) =>
        /\ plan = <<Entry("will clone in a new directory", Prj.name, None)>>
        /\ CallsOf(Prj.key) = <<>>

C2_Witness ==
    /\ command = "plan"
    /\ Returned
    /\ ~pre.exists
    /\ Prj.envrc
    /\ Declared(Prj) = RemoteNames
    /\ Len(plan) = 1

\* C3: a plan run on an existing directory without .git returns exactly the
\* initialization entry, whatever remotes and environment are declared.
C3_PlanUninitializedOnlyInit ==
    (command = "plan" /\ Returned /\ pre.exists /\ ~pre.git) =>
        /\ plan = <<Entry("will clone in an existing dir", Prj.name, None)>>
        /\ CallsOf(Prj.key) = <<>>

C3_Witness ==
    /\ command = "plan"
    /\ Returned
    /\ pre.exists /\ ~pre.git /\ ~pre.venv
    /\ Prj.envrc
    /\ Declared(Prj) = RemoteNames
    /\ Len(plan) = 1

\* C4 as claimed: on a converged project the plan is empty and no mutating
\* tool is invoked, in plan mode and in apply mode.
C4_Original ==
    (InCall /\ Converged(Prj, pre)) =>
        /\ plan = <<>>
        /\ ToolsIn(CallsOf(Prj.key)) \cap MutatingTools = {}

\* C4 as amended: on a converged project the plan is empty, the directory
\* stays as it was, and the only mutating tools invoked are those of the
\* sync step, and only in apply mode without skip_fetch and with a declared
\* origin.
C4_ConvergedOnlySyncs ==
    (InCall /\ Converged(Prj, pre)) =>
        /\ plan = <<>>
        /\ Dir = pre
        /\ ToolsIn(CallsOf(Prj.key)) \cap MutatingTools \subseteq SyncTools
        /\ ToolsIn(CallsOf(Prj.key)) \cap SyncTools # {} =>
              /\ command = "apply"
              /\ ~skip_fetch
              /\ Prj.remotes["origin"] # None

\* an apply run on a converged project with environment and both remotes
\* returned after the sync step
C4_Witness ==
    /\ command = "apply"
    /\ Returned
    /\ Converged(Prj, pre)
    /\ Prj.envrc
    /\ Declared(Prj) = RemoteNames
    /\ "git submodule update" \in ToolsIn(CallsOf(Prj.key))

----------------------------------------------------------------------------
\* the configured remotes when the loop over the declared remotes starts:
\* those found, or those left by the clone or the init of this call
RemotesAtLoop ==
    IF pre.git THEN pre.remotes
    ELSE IF pre.exists THEN NoRemotes
    ELSE Cloned(Prj.remotes["origin"], None).remotes

\* the plan entries and the add / set-url invocations about remote r
PlanFor(r) == SelectSeq(plan, LAMBDA e : e.msg \in RemoteMsgs /\ e.subject = r)
RemoteCallsFor(r) ==
    SelectSeq(CallsOf(Prj.key),
              LAMBDA c : c.tool \in {"git remote add", "git remote set-url"} /\ c.arg[1] = r)

\* C5: every declared remote is reconciled on its own, by string equality:
\* absent -> add, different -> update to the declared URL, equal -> nothing;
\* undeclared remotes get no action. In plan mode the entries of each remote
\* are exactly those, in apply mode the invocations are and the remote ends
\* with the declared URL.
C5_RemotesIndependentExact ==
    (Returned /\ (command = "apply" \/ pre.git)) =>
        \A r \in RemoteNames :
            LET actual == RemotesAtLoop[r]
                url == Prj.remotes[r]
            IN  /\ command = "plan" =>
                     PlanFor(r) =
                        IF url = None \/ actual = url THEN <<>>
                        ELSE IF actual = None
                        THEN <<Entry("will add remote", r, url)>>
                        ELSE <<Entry("will update url for existing remote", r, None),
                               Entry("from", r, actual), Entry("to", r, url)>>
                /\ command = "apply" =>
                     /\ RemoteCallsFor(r) =
                           IF url = None \/ actual = url THEN <<>>
                           ELSE IF actual = None
                           THEN <<Call("git remote add", <<r, url>>, TRUE)>>
                           ELSE <<Call("git remote set-url", <<r, url>>, TRUE)>>
                     /\ Dir.remotes[r] = IF url = None THEN actual ELSE url

\* declared {origin: u1, upstream: u2} against observed {origin: u1,
\* upstream: u3}: the plan is exactly the update of upstream from u3 to u2
C5_Witness ==
    /\ command = "plan"
    /\ Returned
    /\ pre.git
    /\ ~Prj.envrc
    /\ Declared(Prj) = RemoteNames
    /\ pre.remotes["origin"] = Prj.remotes["origin"]
    /\ pre.remotes["upstream"] = "git@h:o/r.git/"
    /\ Prj.remotes["upstream"] = "git@h:o/r.git"
    /\ plan = <<Entry("will update url for existing remote", "upstream", None),
                Entry("from", "upstream", "git@h:o/r.git/"),
                Entry("to", "upstream", "git@h:o/r.git")>>

\* C6 as claimed: the plan Project.run returns is empty iff the project was
\* converged when the call started, in plan mode and in apply mode.
C6_PlanEmptyIffConverged ==
    Returned => (plan = <<>> <=> Converged(Prj, pre))

\* C7 as claimed: an apply run on a missing directory without a declared
\* origin ends with MissingOriginError, and git clone is not invoked.
C7_MissingOriginError ==
    (command = "apply" /\ InCall /\ ~pre.exists /\ Prj.remotes["origin"] = None
        /\ pc # "exists") =>
        /\ err = "MissingOriginError"
        /\ "git clone" \notin ToolsIn(CallsOf(Prj.key))

\* C8: fetch and submodule update are invoked only in apply mode, with
\* skip_fetch false and a declared origin; the submodule update directly
\* follows a successful fetch; no plan entry stands for them.
C8_SyncOnlyApplyNoSkipOrigin ==
    /\ \A i \in 1..Len(calls) :
          calls[i].tool \in SyncTools =>
              /\ command = "apply"
              /\ ~skip_fetch
              /\ \E j \in 1..Len(projects) :
                    /\ projects[j].key = calls[i].key
                    /\ projects[j].remotes["origin"] # None
    /\ \A i \in 1..Len(calls) :
          calls[i].tool = "git submodule update" =>
              /\ i > 1
              /\ calls[i - 1] = [calls[i] EXCEPT !.tool = "git fetch",
                                                !.arg = <<"origin">>, !.ok = TRUE]
    /\ \A i \in 1..Len(plan) :
          plan[i].msg \in RemoteMsgs \cup
              {"will clone in a new directory", "will clone in an existing dir",
               "will create .envrc", "will allow .envrc", "will create venv"}

\* an apply run fetched origin and updated the submodules
C8_Witness ==
    /\ command = "apply"
    /\ ~skip_fetch
    /\ Returned
    /\ Len(calls) > 1
    /\ calls[Len(calls)] = Call("git submodule update", <<>>, TRUE)
    /\ calls[Len(calls) - 1] = Call("git fetch", <<"origin">>, TRUE)

----------------------------------------------------------------------------
\* a failed invocation the code survives: the get-url of
\* Project.get_remote_url (the get-url of update.get_remotes is fatal)
Tolerated(c) == c.tool = "git remote get-url" /\ command # "update"

\* an invocation failed that the code does not survive
FatalFailure == \E i \in 1..Len(calls) : ~calls[i].ok /\ ~Tolerated(calls[i])

\* C9: a non-tolerated tool failure ends the whole run: the failed
\* invocation is the last one ever made (no retry, no later step, no later
\* project), the process has exited, the projects after the current one
\* were never reported, and nothing changes after the exit.
C9_ToolFailureAbortsRun ==
    /\ [](\A i \in 1..Len(calls) :
            (~calls[i].ok /\ ~Tolerated(calls[i])) =>
                /\ i = Len(calls)
                /\ pc = "exit"
                /\ exitCode \notin {<<>>, <<0>>}
                /\ Len(out) < Len(projects) \/ command = "update")
    /\ [][pc = "exit" => UNCHANGED vars]_vars

\* an apply run over two declared projects ended in the first one, on a
\* failed tool, with the second one still to be done
C9_Witness ==
    /\ command = "apply"
    /\ Len(projects) = 2
    /\ cur = 1
    /\ pc = "exit"
    /\ FatalFailure
    /\ ~Converged(projects[2], disk[PathOf(projects[2])])
    /\ CallsOf(projects[2].key) = <<>>

\* main() has found the declaration file malformed
MalformedDeclaration == cfg = "malformed" /\ pc # "main"

\* main() has found no declaration, or one without projects, for plan/apply
NoDeclaredProjects ==
    /\ command # "update"
    /\ pc # "main"
    /\ cfg \in {"absent", "notable"} \/ fileProjects = <<>>

\* update_config has found that the repository directory does not exist
MissingBaseDir == command = "update" /\ cfg # "malformed" /\ ~baseDir /\ pc = "exit"

----------------------------------------------------------------------------
\* the plan entries and the invocations of the environment steps
EnvMsgs == {"will create .envrc", "will allow .envrc", "will create venv"}
EnvTools == {"write .envrc", "direnv status", "direnv allow", "uv venv"}
EnvEntries == SelectSeq(plan, LAMBDA e : e.msg \in EnvMsgs)

\* C11: when the project does not declare envrc, Project.run records no
\* environment entry and invokes no environment tool, in plan mode and in
\* apply mode, whatever the .envrc, its allowance and the .venv are; a
\* directory that existed keeps all three as they were.
C11_NoEnvironmentUnlessDeclared ==
    (InCall /\ ~Prj.envrc) =>
        /\ EnvEntries = <<>>
        /\ ToolsIn(CallsOf(Prj.key)) \cap EnvTools = {}
        /\ pre.exists =>
              /\ Dir.envrc = pre.envrc
              /\ Dir.allowed = pre.allowed
              /\ Dir.venv = pre.venv

\* an apply run without envrc declared returned, after it added a remote, on
\* a repository without .envrc and without .venv
C11_Witness ==
    /\ command = "apply"
    /\ Returned
    /\ ~Prj.envrc
    /\ pre.git
    /\ pre.envrc = None
    /\ ~pre.venv
    /\ "git remote add" \in ToolsIn(CallsOf(Prj.key))

----------------------------------------------------------------------------
\* update_config has met the directory with key k as a git repository
Observed(k) == \E p \in Paths : disk[p].git /\ config_name(p) = k

\* the update flow has written, or left, the declaration file
UpdateDone == command = "update" /\ pc = "done"

\* the projects of the declaration file as the update flow found it (a file
\* that was absent had none, and is the one case that leaves no backup)
FoundProjects == IF backup # <<>> THEN backup[1].projects ELSE fileProjects

\* C12: discovery is overwrite-only. A step of the walk keeps every entry
\* at its place, changes only an entry whose key is that of a repository
\* on disk, and adds only entries with such a key; when the update flow is
\* done, every entry the file had under a key that is not that of a
\* repository on disk is in the file as it was.
C12_DiscoveryOverwriteOnly ==
    /\ [][(command = "update" /\ pc = "walk") =>
            /\ Len(projects') >= Len(projects)
            /\ \A i \in 1..Len(projects) :
                  /\ projects'[i].key = projects[i].key
                  /\ projects'[i] # projects[i] => Observed(projects[i].key)
            /\ \A i \in (Len(projects) + 1)..Len(projects') :
                  Observed(projects'[i].key)]_vars
    /\ [](UpdateDone =>
            \A i \in 1..Len(FoundProjects) :
                ~Observed(FoundProjects[i].key) =>
                    /\ i <= Len(fileProjects)
                    /\ fileProjects[i] = FoundProjects[i])

\* the file declared g1.p1, which is not on disk, and g1.p2, which is, with
\* other remotes: the update flow rewrote the second and kept the first
C12_Witness ==
    /\ UpdateDone
    /\ backup # <<>>
    /\ Len(backup[1].projects) = 2
    /\ Len(fileProjects) = 2
    /\ ~Observed(fileProjects[1].key)
    /\ fileProjects[1] = backup[1].projects[1]
    /\ Observed(fileProjects[2].key)
    /\ fileProjects[2] # backup[1].projects[2]

----------------------------------------------------------------------------
\* the walk of update_config is about to visit a project directory
Visiting == command = "update" /\ pc = "walk" /\ walk # <<>>

\* the walk has gone past the directory it was visiting
Visited == pc' = "walk" /\ walk' = Tail(walk)

\* the entry discovery is to synthesize for directory p: its group, its
\* name, the remotes configured in it and whether its .envrc activates .venv
Synthesized(p) ==
    [key |-> p[1] \o "." \o p[2], group |-> p[1], name |-> p[2],
     envrc |-> disk[p].envrc = Activate, remotes |-> disk[p].remotes]

\* the project table holds entry e
Holds(ps, e) == \E i \in 1..Len(ps) : ps[i] = e

----------------------------------------------------------------------------
\* C14: a project directory without .git produces no entry and does not
\* end the walk: the step that visits it leaves the project table as it
\* was, invokes no tool, raises nothing and goes on with the directories
\* that remain.
C14_UninitializedDirSkipped ==
    [][(Visiting /\ ~disk[Head(walk)].git) =>
          /\ projects' = projects
          /\ calls' = calls
          /\ exitCode' = <<>>
          /\ err' = None
          /\ Visited]_vars

\* the walk has gone past a directory without .git and is about to visit a
\* repository
C14_Witness ==
    /\ Visiting
    /\ Len(walk) = 1
    /\ disk[Head(walk)].git
    /\ \E p \in MainPaths :
          /\ p # Head(walk)
          /\ disk[p].exists
          /\ ~disk[p].git
    /\ exitCode = <<>>

----------------------------------------------------------------------------
\* the update flow has loaded a readable declaration and found that the
\* repository directory does not exist
PastMissingBaseDir ==
    command = "update" /\ cfg # "malformed" /\ ~baseDir /\ pc \notin {"main", "update"}

\* C15: when the repository directory does not exist the update flow ends
\* with a fatal error before it inspects anything: no directory is walked,
\* no tool is invoked, nothing is discovered, and no step of the run writes
\* the declaration file or a backup of it.
C15_MissingBaseDirIsFatal ==
    /\ [](PastMissingBaseDir =>
            /\ pc = "exit"
            /\ exitCode = <<EX_NOINPUT>>
            /\ err = "repo directory does not exist"
            /\ walk = <<>>
            /\ calls = <<>>
            /\ projects = Loaded
            /\ backup = <<>>)
    /\ [][(command = "update" /\ ~baseDir) =>
            /\ cfg' = cfg
            /\ fileProjects' = fileProjects
            /\ backup' = backup]_vars

\* the update flow exited on the missing repository directory with a
\* declaration file of two projects in place
C15_Witness ==
    /\ PastMissingBaseDir
    /\ pc = "exit"
    /\ cfg = "ok"
    /\ Len(fileProjects) = 2

----------------------------------------------------------------------------
\* write_config_file is called with a declaration equal to the file's
WritingEqual ==
    command = "update" /\ pc = "walk" /\ walk = <<>> /\ cfg # "absent" /\ projects = Loaded

\* the step overwrites the declaration file
Overwrites == cfg' # cfg \/ fileProjects' # fileProjects

\* C16: write_config_file called with a declaration equal to the existing
\* file's returns without touching the file and without a backup; a backup
\* is made only of an existing file that differs, and holds that file's
\* contents; and the step that overwrites a file that existed starts with
\* the backup of those contents already made: the backup comes strictly
\* before the overwrite.
C16_BackupBeforeOverwrite ==
    /\ [][WritingEqual =>
            /\ cfg' = cfg
            /\ fileProjects' = fileProjects
            /\ backup' = backup
            /\ pc' = "done"]_vars
    /\ [][(command = "update" /\ backup' # backup) =>
            /\ cfg # "absent"
            /\ projects # Loaded
            /\ backup' = <<[cfg |-> cfg, projects |-> fileProjects]>>
            /\ ~Overwrites]_vars
    /\ [][(command = "update" /\ Overwrites) =>
            /\ fileProjects' = projects
            /\ backup' = backup
            /\ cfg # "absent" =>
                  backup = <<[cfg |-> cfg, projects |-> fileProjects]>>]_vars

\* the backup of a file of one project is made, and the file is still to be
\* overwritten with the two projects discovered
C16_Witness ==
    /\ command = "update"
    /\ pc = "write"
    /\ cfg = "ok"
    /\ Len(fileProjects) = 1
    /\ backup = <<[cfg |-> cfg, projects |-> fileProjects]>>
    /\ Len(projects) = 2

----------------------------------------------------------------------------
\* the path lies inside repo_dir
InsideBase(path) == Len(path) > Len(repo_dir) /\ IsPrefix(repo_dir, path)

\* C17 as claimed: every Project constructed from the declaration has a
\* non-empty key and a non-empty group, and its resolved directory lies
\* inside repo_dir.
C17_ProjectInsideBase ==
    \A i \in 1..cur :
        /\ projects[i].key # ""
        /\ projects[i].group # ""
        /\ InsideBase(ProjectDir(projects[i]))

----------------------------------------------------------------------------
\* the stages of an apply run, in the order claimed, with the tools of each
Stages ==
    <<{"mkdir"}, {"git clone"}, {"git init"}, {"write .envrc"},
      {"direnv status", "direnv allow"}, {"uv venv"},
      {"git remote get-url", "git remote add", "git remote set-url"},
      {"git fetch"}, {"git submodule update"}>>
StageOf(tool) == CHOOSE s \in 1..Len(Stages) : tool \in Stages[s]

\* the stages whose tools are invoked more than once in one Project.run
RepeatedStages == {s \in 1..Len(Stages) : "direnv status" \in Stages[s] \/ "git remote add" \in Stages[s]}

\* C18: the invocations of one apply-mode Project.run are made in the order
\* mkdir of the parents, clone, init, .envrc written, .envrc allowed, venv
\* created, remotes added or updated, fetch, submodule update: no
\* invocation of a later stage precedes one of an earlier stage, and only
\* the direnv and the remote stages make more than one invocation; so every
\* remote add or set-url precedes the fetch and the fetch precedes the
\* submodule update.
C18_ApplyStagesInOrder ==
    (command = "apply" /\ cur > 0) =>
        LET cs == CallsOf(Prj.key)
        IN  \A i, j \in 1..Len(cs) :
                i < j =>
                    /\ cs[i].tool \in UNION {Stages[s] : s \in 1..Len(Stages)}
                    /\ StageOf(cs[i].tool) <= StageOf(cs[j].tool)
                    /\ StageOf(cs[i].tool) = StageOf(cs[j].tool) =>
                          StageOf(cs[i].tool) \in RepeatedStages

\* an apply run on a missing directory went through the clone, the three
\* environment steps, the addition of a remote and the sync
C18_Witness ==
    /\ command = "apply"
    /\ Returned
    /\ ~pre.exists
    /\ {"mkdir", "git clone", "write .envrc", "direnv allow", "uv venv",
        "git remote add", "git fetch", "git submodule update"}
          \subseteq ToolsIn(CallsOf(Prj.key))

----------------------------------------------------------------------------
\* a plan run on an initialized directory of a project that declares envrc
\* has returned
PlannedEnvironment == command = "plan" /\ Returned /\ Prj.envrc /\ pre.git

CreateEnvrc == Entry("will create .envrc", Prj.name, None)
AllowEnvrc == Entry("will allow .envrc", Prj.name, None)
CreateVenv == Entry("will create venv", Prj.name, None)

\* C19 as claimed: in plan mode, with envrc declared and no .envrc, the
\* entry for the creation of the .envrc is the only environment entry of the
\* plan, even when .venv is missing as well.
C19_Original ==
    (PlannedEnvironment /\ pre.envrc = None) => EnvEntries = <<CreateEnvrc>>

\* C19 as amended: in plan mode, with envrc declared and no .envrc, the
\* plan holds the entry for the creation of the .envrc and no allow entry,
\* direnv is not asked for its status, and the entry for the creation of
\* the venv follows exactly when .venv is missing.
C19_PlannedEnvrcSkipsAllowOnly ==
    (PlannedEnvironment /\ pre.envrc = None) =>
        /\ EnvEntries = <<CreateEnvrc>> \o (IF pre.venv THEN <<>> ELSE <<CreateVenv>>)
        /\ "direnv status" \notin ToolsIn(CallsOf(Prj.key))

\* a plan run without .envrc and without .venv returned both creation
\* entries and nothing else
C19_Witness ==
    /\ PlannedEnvironment
    /\ pre.envrc = None
    /\ ~pre.venv
    /\ plan = <<CreateEnvrc, CreateVenv>>

\* C20: in plan mode, with envrc declared and a .envrc present, the plan
\* holds the allow entry exactly when direnv does not report the .envrc as
\* allowed, and the entry for the creation of the venv exactly when .venv
\* is missing, each whatever the other is.
C20_AllowAndVenvIndependent ==
    (PlannedEnvironment /\ pre.envrc # None) =>
        EnvEntries = (IF pre.allowed THEN <<>> ELSE <<AllowEnvrc>>)
                        \o (IF pre.venv THEN <<>> ELSE <<CreateVenv>>)

\* a plan run on a .envrc that is not allowed, with .venv in place, returned
\* the allow entry alone
C20_Witness ==
    /\ PlannedEnvironment
    /\ pre.envrc # None
    /\ ~pre.allowed
    /\ pre.venv
    /\ plan = <<AllowEnvrc>>

----------------------------------------------------------------------------
\* C21: a failed `git remote get-url` of Project.run does not end the run
\* and is taken as "no such remote": in plan mode the plan holds the add
\* entry of that remote with its declared URL, in apply mode `git remote
\* add` of that remote and URL is the next invocation; the failure of any
\* other invocation is the last thing the process does.
C21_OnlyLookupFailureTolerated ==
    \A i \in 1..Len(calls) :
        ~calls[i].ok =>
            IF calls[i].tool = "git remote get-url"
            THEN LET r == calls[i].arg[1]
                     url == Prj.remotes[r]
                 IN  /\ url # None
                     /\ pc = "exit" => i < Len(calls)
                     /\ command = "plan" =>
                           PlanFor(r) = <<Entry("will add remote", r, url)>>
                     /\ command = "apply" =>
                           /\ i < Len(calls)
                           /\ calls[i + 1].tool = "git remote add"
                           /\ calls[i + 1].arg = <<r, url>>
            ELSE /\ i = Len(calls)
                 /\ pc = "exit"
                 /\ exitCode = <<EX_OSERR>>

\* an apply run whose lookup of upstream failed added upstream, went on to
\* fetch origin and returned
C21_Witness ==
    /\ command = "apply"
    /\ Returned
    /\ \E i \in 1..Len(calls) :
          /\ calls[i] = Call("git remote get-url", <<"upstream">>, FALSE)
          /\ calls[i + 1].tool = "git remote add"
          /\ calls[i + 1].ok
    /\ calls[Len(calls)].tool = "git submodule update"
    /\ Dir.remotes["upstream"] = Prj.remotes["upstream"]

----------------------------------------------------------------------------
\* the position of the first invocation of the tool in a sequence of calls,
\* 0 if there is none
FirstCall(cs, tool) ==
    IF \E i \in 1..Len(cs) : cs[i].tool = tool
    THEN CHOOSE i \in 1..Len(cs) :
            /\ cs[i].tool = tool
            /\ \A j \in 1..(i - 1) : cs[j].tool # tool
    ELSE 0

\* C22: an apply run on a missing directory with a declared origin, once
\* returned, has looked up origin after the clone, in the same call, found
\* it configured, and made no `git remote add` or `set-url` for origin,
\* which has the declared URL.
C22_OriginNoOpAfterClone ==
    (command = "apply" /\ Returned /\ ~pre.exists /\ Prj.remotes["origin"] # None) =>
        LET cs == CallsOf(Prj.key)
            clone == FirstCall(cs, "git clone")
        IN  /\ clone > 0
            /\ \E i \in (clone + 1)..Len(cs) :
                  cs[i] = Call("git remote get-url", <<"origin">>, TRUE)
            /\ RemoteCallsFor("origin") = <<>>
            /\ Dir.remotes["origin"] = Prj.remotes["origin"]

\* an apply run cloned a missing directory, then added upstream and left
\* origin alone
C22_Witness ==
    /\ command = "apply"
    /\ Returned
    /\ ~pre.exists
    /\ Declared(Prj) = RemoteNames
    /\ "git clone" \in ToolsIn(CallsOf(Prj.key))
    /\ Len(RemoteCallsFor("upstream")) = 1
    /\ RemoteCallsFor("origin") = <<>>

----------------------------------------------------------------------------
\* the step changes no project directory but the one of the project that
\* is being reconciled
OnlyOwnDirectory ==
    \A q \in Paths :
        disk'[q] # disk[q] => (cur > 0 /\ q = <<Prj.group, Prj.name>>)

----------------------------------------------------------------------------
\* the plan run that follows a completed apply run
SecondRun == command = "plan" /\ Len(out) >= 1

\* C24: after an apply run of a project that completed, a plan run of the
\* same project on the tree the apply run left records no entry at any
\* step, and returns the empty plan, which run() reports as no changes.
C24_PlanAfterApplyIsEmpty ==
    SecondRun =>
        /\ plan = <<>>
        /\ Len(out) = 2 => out[2] = [key |-> projects[1].key,
                                     msg |-> "no changes to", plan |-> <<>>]

\* the apply run cloned, set up the environment and added a remote, and the
\* plan run that followed has returned
C24_Witness ==
    /\ SecondRun
    /\ Len(out) = 2
    /\ {"git clone", "direnv allow", "uv venv", "git remote add"} \subseteq ToolsIn(calls)
    /\ calls[Len(calls)].tool = "git remote get-url"

----------------------------------------------------------------------------
\* the entry is one that the completed update flow synthesized from the
\* tree: it is stored under the key of a repository with at least one
\* configured remote
SynthesizedFromTree(e) ==
    \E p \in Paths :
        /\ disk[p].git
        /\ disk[p].remotes # NoRemotes
        /\ e.key = p[1] \o "." \o p[2]

CloneOrInitMsgs == {"will clone in a new directory", "will clone in an existing dir"}

\* C25: Project.run in plan mode on an entry that update_config synthesized
\* from the tree, against that tree, leaves the tree as it is, records no
\* clone entry, no initialization entry and no entry about a remote, and
\* can only be cut short by a failing `direnv status`.
C25_DiscoveredEntryPlansNothing ==
    (command = "plan" /\ InCall /\ SynthesizedFromTree(Prj)) =>
        /\ \A i \in 1..Len(plan) : plan[i].msg \notin CloneOrInitMsgs \cup RemoteMsgs
        /\ Dir = pre
        /\ pc # "exit" \/ calls[Len(calls)].tool = "direnv status"

\* update discovered two repositories, one of which the file did not hold,
\* and the plan run on the written declaration has returned from the second
\* one, whose venv is missing, with the environment entries alone
C25_Witness ==
    /\ command = "plan"
    /\ Returned
    /\ cur = 2
    /\ backup # <<>>
    /\ Len(backup[1].projects) = 1
    /\ \A i \in 1..2 : SynthesizedFromTree(projects[i])
    /\ Prj.envrc
    /\ plan = <<AllowEnvrc, CreateVenv>>

----------------------------------------------------------------------------
\* the invocations that name a remote
RemoteTools == {"git remote get-url", "git remote add", "git remote set-url"}

\* C26: in a plan or apply run on a directory that was an initialized
\* repository, a remote that the project does not declare keeps the URL it
\* had (or stays unconfigured), is never looked up, added or updated, and
\* has no plan entry.
C26_UndeclaredRemotesUntouched ==
    (InCall /\ pre.git) =>
        \A r \in RemoteNames :
            Prj.remotes[r] = None =>
                /\ Dir.remotes[r] = pre.remotes[r]
                /\ \A i \in 1..Len(calls) :
                      calls[i].tool \in RemoteTools => calls[i].arg[1] # r
                /\ PlanFor(r) = <<>>

\* an apply run updated the URL of origin and returned, with upstream
\* configured and not declared
C26_Witness ==
    /\ command = "apply"
    /\ Returned
    /\ pre.git
    /\ Prj.remotes["upstream"] = None
    /\ pre.remotes["upstream"] # None
    /\ Dir.remotes["upstream"] = pre.remotes["upstream"]
    /\ Len(RemoteCallsFor("origin")) = 1
    /\ RemoteCallsFor("origin")[1].tool = "git remote set-url"

----------------------------------------------------------------------------
\* the directory is one for which update_config synthesizes an entry
Discoverable(p) == disk[p].git /\ disk[p].remotes # NoRemotes

\* C27 as claimed: two distinct project directories of one walk are stored
\* under distinct keys, so that when the update flow is done the
\* declaration holds the entry of every repository it discovered.
C27_KeysCollisionFree ==
    UpdateDone =>
        \A p, q \in Paths :
            (Discoverable(p) /\ Discoverable(q) /\ p # q) =>
                \E i, j \in 1..Len(fileProjects) :
                    /\ fileProjects[i].key # fileProjects[j].key
                    /\ fileProjects[i].group = p[1] /\ fileProjects[i].name = p[2]
                    /\ fileProjects[j].group = q[1] /\ fileProjects[j].name = q[2]

====
